---- MODULE Spec2Model ----
(***************************************************************************)
(* Model of zipline/pipeline/loaders/quarter_estimates.py: the quarter     *)
(* codec, QuarterEstimatesLoader.load_adjusted_array with its Next and     *)
(* Previous load_quarters variants, and get_adjustments.                   *)
(*                                                                         *)
(* Dates are the integers 1..n; row index r (0-based, as in the code) is   *)
(* the date r + 1.  A table cell that pandas would hold as NaN / NaT is    *)
(* the number NaN / NaT, which no event field ever takes.                  *)
(***************************************************************************)
EXTENDS Integers, Sequences, FiniteSets, TLC

----------------------------------------------------------------------------
(* Bounds of the explored inputs *)

NumDates == 3
MaxEvents == 2
MaxYear == 12

(* Fiscal periods (year, quarter) the events of the explored tables use:   *)
(* two consecutive quarters across a year boundary.                        *)
FiscalPeriods == {<<2015, 4>>, <<2016, 1>>}

(* num_quarters values of the requested columns *)
NumQuartersChoices == {-1, 0, 1, 2}

----------------------------------------------------------------------------
(* Missing values *)

NaT == -2
NaN == -1

MissingValue(dtype) == IF dtype = "datetime64" THEN NaT ELSE NaN

----------------------------------------------------------------------------
(* Quarter codec *)

normalize_quarters(years, quarters) == years * 4 + quarters - 1

(* split_normalized_quarters without the + 1 on the quarter *)
split_normalized_quarters_ZeroBased(normalized_quarters) ==
    <<normalized_quarters \div 4, normalized_quarters % 4>>

split_normalized_quarters(normalized_quarters) ==
    <<normalized_quarters \div 4, (normalized_quarters % 4) + 1>>

----------------------------------------------------------------------------
(* Generic helpers *)

Range(f) == {f[i] : i \in DOMAIN f}

Min(S) == CHOOSE x \in S : \A y \in S : x <= y

RECURSIVE SortedSeq(_)
SortedSeq(S) == IF S = {} THEN <<>> ELSE <<Min(S)>> \o SortedSeq(S \ {Min(S)})

----------------------------------------------------------------------------
(* Column names *)

NORMALIZED_QUARTERS == "normalized_quarters"

required_estimates_fields ==
    {"timestamp", "sid", "event_date", "fiscal_quarter", "fiscal_year", "estimate"}

(* The physical column a requested column is served from, and its dtype *)
base_column_name_map == [c \in {"estimate", "event_date"} |-> c]

FieldType(field) == IF field = "event_date" THEN "datetime64" ELSE "float64"

----------------------------------------------------------------------------
VARIABLES loader, estimates, constructed, args, out, codec

vars == <<loader, estimates, constructed, args, out, codec>>

----------------------------------------------------------------------------
(* Snapshot builder: last_in_date_group followed by ffill_across_cols.     *)
(* For (date d, quarter q, asset sid) the cell holds the fields of the     *)
(* event of (sid, q) with the latest knowledge timestamp <= d, the later   *)
(* table row winning a tie; it is missing when no such event exists.       *)

KnownEvents(est, d, q, sid) ==
    {i \in DOMAIN est.rows : /\ est.rows[i].sid = sid
                             /\ est.normalized_quarters[i] = q
                             /\ est.rows[i].timestamp <= d}

LatestEvent(est, d, q, sid) ==
    CHOOSE i \in KnownEvents(est, d, q, sid) :
        \A j \in KnownEvents(est, d, q, sid) :
            \/ est.rows[j].timestamp < est.rows[i].timestamp
            \/ (est.rows[j].timestamp = est.rows[i].timestamp /\ j <= i)

last_in_date_group(est, field, d, q, sid) ==
    IF KnownEvents(est, d, q, sid) = {}
    THEN MissingValue(FieldType(field))
    ELSE est.rows[LatestEvent(est, d, q, sid)][field]

(* The quarter level of the snapshot's columns: every quarter of the table *)
ObservedQuarters(est) == Range(est.normalized_quarters)

(* stack() keeps a (date, quarter, sid) row only where some field is set *)
StackedHasRow(est, d, q, sid) == KnownEvents(est, d, q, sid) # {}

(* .loc[index] on the stacked table: KeyError when the index is not empty  *)
(* and none of its keys is a row; a key that is no row gives missing cells *)
LocKeyError(est, index) ==
    /\ index # {}
    /\ \A k \in index : ~StackedHasRow(est, k[1], k[2], k[3])

----------------------------------------------------------------------------
(* Quarter selectors *)

(* sort(EVENT_DATE_FIELD_NAME): q1's row comes before q2's row.  The sort  *)
(* is numpy's default quicksort, which is not stable: rows with equal      *)
(* event dates keep their order (lower quarter first) or do not.           *)
SortsBefore(est, d, sid, q1, q2, stable) ==
    LET e1 == last_in_date_group(est, "event_date", d, q1, sid)
        e2 == last_in_date_group(est, "event_date", d, q2, sid)
    IN  \/ e1 < e2
        \/ (e1 = e2 /\ IF stable THEN q1 < q2 ELSE q1 > q2)

NextCandidates(est, d, sid) ==
    {q \in ObservedQuarters(est) :
        /\ StackedHasRow(est, d, q, sid)
        /\ last_in_date_group(est, "event_date", d, q, sid) >= d}

(* PreviousCandidates with < for <= : a release on the simulation date *)
(* itself is not yet previous                                          *)
PreviousCandidates_Strict(est, d, sid) ==
    {q \in ObservedQuarters(est) :
        /\ StackedHasRow(est, d, q, sid)
        /\ last_in_date_group(est, "event_date", d, q, sid) < d}

PreviousCandidates(est, d, sid) ==
    {q \in ObservedQuarters(est) :
        /\ StackedHasRow(est, d, q, sid)
        /\ last_in_date_group(est, "event_date", d, q, sid) <= d}

(* groupby(level=[dates, sid]).nth(0) of the sorted, filtered rows *)
NextReference(est, d, sid, stable) ==
    CHOOSE q \in NextCandidates(est, d, sid) :
        \A p \in NextCandidates(est, d, sid) \ {q} :
            SortsBefore(est, d, sid, q, p, stable)

(* groupby(level=[dates, sid]).nth(-1) of the sorted, filtered rows *)
PreviousReference(est, d, sid, stable) ==
    CHOOSE q \in PreviousCandidates(est, d, sid) :
        \A p \in PreviousCandidates(est, d, sid) \ {q} :
            SortsBefore(est, d, sid, p, q, stable)

(* A quarters table: index is a set of <<date, shifted quarter, sid>>,     *)
(* event_date the EVENT_DATE column, error whether building it raised.     *)
NextQuarters_load_quarters(est, n, assets, num_quarters, stable) ==
    LET index == {<<k[1], NextReference(est, k[1], k[2], stable)
                            + (num_quarters - 1), k[2]>> :
                    k \in {x \in (1..n) \X Range(assets) :
                             NextCandidates(est, x[1], x[2]) # {}}}
    IN  [index |-> index,
         event_date |-> [k \in index |->
             last_in_date_group(est, "event_date", k[1],
                                k[2] - (num_quarters - 1), k[3])],
         error |-> FALSE]

PreviousQuarters_load_quarters(est, n, assets, num_quarters, stable) ==
    LET index == {<<k[1], PreviousReference(est, k[1], k[2], stable)
                            - (num_quarters - 1), k[2]>> :
                    k \in {x \in (1..n) \X Range(assets) :
                             PreviousCandidates(est, x[1], x[2]) # {}}}
    IN  [index |-> index,
         event_date |-> [k \in index |->
             last_in_date_group(est, "event_date", k[1], k[2], k[3])],
         error |-> LocKeyError(est, index)]

load_quarters(cls, est, n, assets, num_quarters, stable) ==
    IF cls = "next"
    THEN NextQuarters_load_quarters(est, n, assets, num_quarters, stable)
    ELSE PreviousQuarters_load_quarters(est, n, assets, num_quarters, stable)

----------------------------------------------------------------------------
(* Adjustment generator *)

(* last.index.searchsorted(event_date, side='right') over the dates 1..n:  *)
(* the number of dates <= event_date (0 for NaT)                           *)
searchsorted_right(n, event_date) == Cardinality({d \in 1..n : d <= event_date})

(* An overwrite instruction (Float641DArrayOverwrite or                    *)
(* Datetime641DArrayOverwrite): 0-based closed row and column ranges       *)
overwrite(first_row, last_row, first_col, last_col, values) ==
    [first_row |-> first_row, last_row |-> last_row,
     first_col |-> first_col, last_col |-> last_col, values |-> values]

(* adjustments[key] = instructions *)
SetItem(adjustments, key, instructions) ==
    [k \in DOMAIN adjustments \cup {key} |->
        IF k = key THEN instructions ELSE adjustments[k]]

overwrite_with_missing_value(missing_value, qtr_start_idx, adjustments, sid_idx) ==
    SetItem(adjustments, qtr_start_idx,
            <<overwrite(0, qtr_start_idx - 1, sid_idx, sid_idx,
                        [i \in 1..qtr_start_idx |-> missing_value])>>)

(* quarters_with_estimates_for_sid: the quarter level of the snapshot's    *)
(* columns under sid; the snapshot holds a column for every observed       *)
(* quarter under every asset, all-missing where the asset has no event.    *)
quarters_with_estimates_for_sid(est, sid) == ObservedQuarters(est)

(* The dates of sid's requested rows, and the shifted quarter of a row *)
ResultDates(result, sid) == {k[1] : k \in {x \in result.index : x[3] = sid}}

ShiftedAt(result, d, sid) ==
    (CHOOSE k \in result.index : k[1] = d /\ k[3] = sid)[2]

(* qtr_shifts: rows whose shifted quarter differs from the previous row's; *)
(* the first row always does                                               *)
qtr_shifts(result, sid) ==
    {d \in ResultDates(result, sid) :
        LET earlier == {e \in ResultDates(result, sid) : e < d}
        IN  \/ earlier = {}
            \/ ShiftedAt(result, CHOOSE e \in earlier : \A f \in earlier : f <= e, sid)
                 # ShiftedAt(result, d, sid)}

(* ProcessBoundary overwriting through row qtr_start_idx instead of       *)
(* qtr_start_idx - 1                                                     *)
ProcessBoundary_ThroughStart(adjustments, est, n, subsequent_qtr_data, result, column_name, missing_value, sid_idx, sid, d) ==
    LET shifted == ShiftedAt(result, d, sid)
        requested_quarter == shifted + 1
        qtr_start_idx ==
            searchsorted_right(n, subsequent_qtr_data.event_date[<<d, shifted, sid>>])
    IN  IF /\ requested_quarter \in quarters_with_estimates_for_sid(est, sid)
           /\ 0 < qtr_start_idx
           /\ qtr_start_idx < n
        THEN SetItem(adjustments, qtr_start_idx,
                <<overwrite(0, qtr_start_idx, sid_idx, sid_idx,
                    [i \in 1..(qtr_start_idx + 1) |->
                        last_in_date_group(est, column_name, i,
                                           requested_quarter, sid)])>>)
        ELSE IF 0 < qtr_start_idx /\ qtr_start_idx < n
        THEN SetItem(adjustments, qtr_start_idx,
                <<overwrite(0, qtr_start_idx, sid_idx, sid_idx,
                            [i \in 1..(qtr_start_idx + 1) |-> missing_value])>>)
        ELSE adjustments

(* The body of the loop over qtr_shifts.index, for the row (d, sid) *)
ProcessBoundary(adjustments, est, n, subsequent_qtr_data, result, column_name, missing_value, sid_idx, sid, d) ==
    LET shifted == ShiftedAt(result, d, sid)
        requested_quarter == shifted + 1
        qtr_start_idx ==
            searchsorted_right(n, subsequent_qtr_data.event_date[<<d, shifted, sid>>])
    IN  IF /\ requested_quarter \in quarters_with_estimates_for_sid(est, sid)
           /\ 0 < qtr_start_idx
           /\ qtr_start_idx < n
        THEN SetItem(adjustments, qtr_start_idx,
                <<overwrite(0, qtr_start_idx - 1, sid_idx, sid_idx,
                    [i \in 1..qtr_start_idx |->
                        last_in_date_group(est, column_name, i,
                                           requested_quarter, sid)])>>)
        ELSE IF 0 < qtr_start_idx /\ qtr_start_idx < n
        THEN overwrite_with_missing_value(missing_value, qtr_start_idx,
                                          adjustments, sid_idx)
        ELSE adjustments

RECURSIVE SidLoop(_, _, _, _, _, _, _, _, _, _)
SidLoop(adjustments, est, n, subsequent_qtr_data, result, column_name, missing_value, sid_idx, sid, shifts) ==
    IF shifts = <<>> THEN adjustments
    ELSE SidLoop(ProcessBoundary(adjustments, est, n, subsequent_qtr_data, result,
                                 column_name, missing_value, sid_idx, sid,
                                 Head(shifts)),
                 est, n, subsequent_qtr_data, result, column_name,
                 missing_value, sid_idx, sid, Tail(shifts))

RECURSIVE AssetLoop(_, _, _, _, _, _, _, _, _)
AssetLoop(adjustments, est, n, subsequent_qtr_data, result, column_name, missing_value, assets, pos) ==
    IF pos > Len(assets) THEN adjustments
    ELSE AssetLoop(SidLoop(adjustments, est, n, subsequent_qtr_data, result,
                           column_name, missing_value, pos - 1, assets[pos],
                           SortedSeq(qtr_shifts(result, assets[pos]))),
                   est, n, subsequent_qtr_data, result, column_name,
                   missing_value, assets, pos + 1)

(* col_result: requested column unstacked by sid and reindexed by dates.   *)
(* unstack makes a column only for the sids that have a requested row, in  *)
(* sid order; .values drops the labels.                                    *)
ColumnSids(result) == SortedSeq({k[3] : k \in result.index})

(* col_result reading every row as of the last date *)
col_result_AsOfLastDate(est, n, result, column_name) ==
    LET sids == ColumnSids(result)
    IN  [r \in 0..(n - 1) |->
            [c \in 0..(Len(sids) - 1) |->
                IF (r + 1) \in ResultDates(result, sids[c + 1])
                THEN last_in_date_group(est, column_name, n,
                                        ShiftedAt(result, r + 1, sids[c + 1]),
                                        sids[c + 1])
                ELSE MissingValue(FieldType(column_name))]]

col_result(est, n, result, column_name) ==
    LET sids == ColumnSids(result)
    IN  [r \in 0..(n - 1) |->
            [c \in 0..(Len(sids) - 1) |->
                IF (r + 1) \in ResultDates(result, sids[c + 1])
                THEN last_in_date_group(est, column_name, r + 1,
                                        ShiftedAt(result, r + 1, sids[c + 1]),
                                        sids[c + 1])
                ELSE MissingValue(FieldType(column_name))]]

get_adjustments(est, n, result, subsequent_qtr_data, column, assets) ==
    LET column_name == base_column_name_map[column.name]
    IN  [data |-> col_result(est, n, result, column_name),
         adjustments |-> AssetLoop(<<>>, est, n, subsequent_qtr_data, result,
                                   column_name, MissingValue(column.dtype),
                                   assets, 1),
         missing_value |-> MissingValue(column.dtype)]

----------------------------------------------------------------------------
(* Loader facade *)

(* self.estimates[NORMALIZED_QUARTERS] = normalize_quarters(year, quarter) *)
WithNormalizedQuarters(est) ==
    [est EXCEPT !.columns = @ \cup {NORMALIZED_QUARTERS},
                !.normalized_quarters =
                    [i \in DOMAIN est.rows |->
                        normalize_quarters(est.rows[i].fiscal_year,
                                           est.rows[i].fiscal_quarter)]]

(* One pass of the loop over groups_columns, for the group num_quarters:   *)
(* the quarters table, whether a lookup raised (load_quarters, or          *)
(* stacked_last_per_qtr.loc[subsequent_qtr_data.index]), whether           *)
(* requested_qtr_data is empty.                                            *)
LoadGroup(cls, est, n, assets, num_quarters, stable) ==
    LET subsequent_qtr_data == load_quarters(cls, est, n, assets, num_quarters, stable)
    IN  [subsequent_qtr_data |-> subsequent_qtr_data,
         error |-> \/ subsequent_qtr_data.error
                   \/ LocKeyError(est, subsequent_qtr_data.index),
         empty |-> subsequent_qtr_data.index = {}]

(* The loop over groups_columns on the table est (which holds the          *)
(* normalized quarters): a KeyError, or the mapping out.                   *)
LoadGroups(cls, est, n, assets, columns, stable) ==
    LET groups == [g \in {c.num_quarters : c \in columns} |->
                      LoadGroup(cls, est, n, assets, g, stable)]
    IN  IF \E g \in DOMAIN groups : groups[g].error
        THEN [status |-> "KeyError", arrays |-> <<>>]
        ELSE [status |-> "ok",
              arrays |->
                [c \in {x \in columns : ~groups[x.num_quarters].empty} |->
                    get_adjustments(est, n,
                                    groups[c.num_quarters].subsequent_qtr_data,
                                    groups[c.num_quarters].subsequent_qtr_data,
                                    c, assets)]]

(* load_adjusted_array assigning the normalized quarters before it checks *)
(* num_quarters                                                           *)
load_adjusted_array_AssignFirst(columns, n, assets, stable) ==
    /\ out.status = "none"
    /\ args' = [columns |-> columns, n |-> n, assets |-> assets, stable |-> stable]
    /\ estimates' = WithNormalizedQuarters(estimates)
    /\ IF \E c \in columns : c.num_quarters < 0
       THEN out' = [status |-> "ValueError", arrays |-> <<>>]
       ELSE out' = LoadGroups(loader, WithNormalizedQuarters(estimates),
                              n, assets, columns, stable)
    /\ UNCHANGED <<loader, constructed, codec>>

(* load_adjusted_array(columns, dates, assets, mask), dates being 1..n.    *)
(* `stable` is what the sort in load_quarters does with equal event dates. *)
(* A loader is explored through one load: a load reads the rows of the     *)
(* table only, and no load changes them.                                   *)
load_adjusted_array(columns, n, assets, stable) ==
    /\ out.status = "none"
    /\ args' = [columns |-> columns, n |-> n, assets |-> assets, stable |-> stable]
    /\ IF \E c \in columns : c.num_quarters < 0
       THEN /\ out' = [status |-> "ValueError", arrays |-> <<>>]
            /\ UNCHANGED estimates
       ELSE /\ estimates' = WithNormalizedQuarters(estimates)
            /\ out' = LoadGroups(loader, WithNormalizedQuarters(estimates),
                                 n, assets, columns, stable)
    /\ UNCHANGED <<loader, constructed, codec>>

----------------------------------------------------------------------------
(* Explored inputs *)

Assets == <<1, 2>>

(* Knowledge dates and event dates of the explored events; event date 0   *)
(* is before the range.  The first asset's estimates become known on any   *)
(* knowledge date, the other assets' on the first date.                    *)
KnowledgeDates == 1..3
EventDates == 0..3

EventOf(sid, timestamp, event_date, period) ==
    [sid |-> sid, timestamp |-> timestamp, event_date |-> event_date,
     fiscal_year |-> period[1], fiscal_quarter |-> period[2],
     estimate |-> 10 * timestamp + period[2]]

(* The estimate of an event tells its knowledge date and its quarter *)
Events ==
    {EventOf(x[1], x[2], x[3], x[4]) :
        x \in {y \in Range(Assets) \X KnowledgeDates \X EventDates \X FiscalPeriods :
                 y[1] = Assets[1] \/ y[2] = 1}}

(* Tables are in knowledge order *)
EventKey(e) ==
    ((e.timestamp * 10 + e.sid) * 10 + e.fiscal_quarter) * 10 + e.event_date

Tables ==
    UNION {{t \in [1..k -> Events] :
              \A i \in 1..(k - 1) : EventKey(t[i]) < EventKey(t[i + 1])} :
           k \in 0..MaxEvents}

RequestColumn(name, num_quarters) ==
    [name |-> name, num_quarters |-> num_quarters, dtype |-> FieldType(name)]

(* Requested column sets: one column, or two columns of one group, of two  *)
(* groups, or of a valid and an invalid group                              *)
Requests ==
    {{RequestColumn("estimate", nq)} : nq \in NumQuartersChoices}
    \cup {{RequestColumn("event_date", 1)},
          {RequestColumn("estimate", 1), RequestColumn("event_date", 1)},
          {RequestColumn("estimate", 1), RequestColumn("estimate", 2)},
          {RequestColumn("estimate", 2), RequestColumn("event_date", -1)}}

(* QuarterEstimatesLoader.__init__: the validated table *)
Construct(rows) ==
    [columns |-> required_estimates_fields, rows |-> rows,
     normalized_quarters |-> <<>>]

NoArgs == [columns |-> {}, n |-> 0, assets |-> <<>>, stable |-> TRUE]
NoOut == [status |-> "none", arrays |-> <<>>]
IdleCodec == [pc |-> "idle", year |-> 0, quarter |-> 1, normalized |-> 0,
              split |-> <<0, 1>>]

Init ==
    /\ loader \in {"next", "previous"}
    /\ \E rows \in Tables : /\ estimates = Construct(rows)
                            /\ constructed = Construct(rows)
    /\ args = NoArgs
    /\ out = NoOut
    /\ codec = IdleCodec

Load ==
    \E columns \in Requests, stable \in BOOLEAN :
        load_adjusted_array(columns, NumDates, Assets, stable)

Next == Load

Spec == Init /\ [][Next]_vars

----------------------------------------------------------------------------
(* The quarter codec on its own: normalize a (year, quarter), split it back *)

InitCodec ==
    /\ loader = "next"
    /\ estimates = Construct(<<>>)
    /\ constructed = Construct(<<>>)
    /\ args = NoArgs
    /\ out = NoOut
    /\ \E year \in (-MaxYear)..MaxYear, quarter \in 1..4 :
          codec = [pc |-> "start", year |-> year, quarter |-> quarter,
                   normalized |-> 0, split |-> <<0, 1>>]

Normalize ==
    /\ codec.pc = "start"
    /\ codec' = [codec EXCEPT !.pc = "normalized",
                              !.normalized = normalize_quarters(codec.year,
                                                                codec.quarter)]
    /\ UNCHANGED <<loader, estimates, constructed, args, out>>

Split ==
    /\ codec.pc = "normalized"
    /\ codec' = [codec EXCEPT !.pc = "split",
                              !.split = split_normalized_quarters(codec.normalized)]
    /\ UNCHANGED <<loader, estimates, constructed, args, out>>

NextCodec == Normalize \/ Split

SpecCodec == InitCodec /\ [][NextCodec]_vars

----------------------------------------------------------------------------
(* The end-to-end scenario: a Previous loader over one asset, dates 1..12, *)
(* Q1's estimate 10 known from day 1, Q2's estimate 12 known from day      *)
(* `known` about an event on day `event`.  Q1's event is on day 1 or       *)
(* before the range.                                                       *)

ScenarioDates == 1..12
ScenarioAssets == <<1>>
ScenarioQ1 == <<2016, 1>>
ScenarioQ2 == <<2016, 2>>

ScenarioRows(q1_event, known, event) ==
    <<[sid |-> 1, timestamp |-> 1, event_date |-> q1_event,
       fiscal_year |-> ScenarioQ1[1], fiscal_quarter |-> ScenarioQ1[2],
       estimate |-> 10],
      [sid |-> 1, timestamp |-> known, event_date |-> event,
       fiscal_year |-> ScenarioQ2[1], fiscal_quarter |-> ScenarioQ2[2],
       estimate |-> 12]>>

InitScenario ==
    /\ loader = "previous"
    /\ \E q1_event \in 0..1, known \in ScenarioDates, event \in ScenarioDates :
          /\ estimates = Construct(ScenarioRows(q1_event, known, event))
          /\ constructed = Construct(ScenarioRows(q1_event, known, event))
    /\ args = NoArgs
    /\ out = NoOut
    /\ codec = IdleCodec

LoadScenario ==
    \E stable \in BOOLEAN :
        load_adjusted_array({RequestColumn("estimate", 1)},
                            Cardinality(ScenarioDates), ScenarioAssets, stable)

NextScenario == LoadScenario

SpecScenario == InitScenario /\ [][NextScenario]_vars

----------------------------------------------------------------------------
(* What the properties speak of, in a state a load has returned to *)

Loaded == out.status = "ok"

(* The quarters table of the group of column c in the returned load *)
QuartersOf(c) ==
    LoadGroup(loader, estimates, args.n, args.assets, c.num_quarters,
              args.stable).subsequent_qtr_data

(* The boundary row of the quarter change of asset sid on date d, in the   *)
(* quarters table `quarters`                                               *)
BoundaryRow(quarters, d, sid) ==
    searchsorted_right(args.n,
        quarters.event_date[<<d, ShiftedAt(quarters, d, sid), sid>>])

(* The Snapshot Row value, as of d, of the quarter requested for sid on d *)
RequestedValue(c, quarters, d, sid) ==
    IF d \in ResultDates(quarters, sid)
    THEN last_in_date_group(estimates, base_column_name_map[c.name], d,
                            ShiftedAt(quarters, d, sid), sid)
    ELSE MissingValue(c.dtype)

(* An event of sid that was known on d carries the value v *)
KnownBy(c, v, d, sid) ==
    \/ v = MissingValue(c.dtype)
    \/ \E i \in DOMAIN estimates.rows :
          /\ estimates.rows[i].sid = sid
          /\ estimates.rows[i].timestamp <= d
          /\ estimates.rows[i][base_column_name_map[c.name]] = v

Covers(instruction, row, col) ==
    /\ instruction.first_row <= row /\ row <= instruction.last_row
    /\ instruction.first_col <= col /\ col <= instruction.last_col

(* The keys among `keys` that hold an instruction covering (row, col) *)
CoveringKeys(aa, keys, row, col) ==
    {k \in keys \cap DOMAIN aa.adjustments :
        \E i \in DOMAIN aa.adjustments[k] : Covers(aa.adjustments[k][i], row, col)}

Max(S) == CHOOSE x \in S : \A y \in S : y <= x

(* The cell (row, col) of the matrix after the instructions at `keys` were *)
(* applied in key order, as a one-element tuple; the empty tuple when the  *)
(* matrix has no such cell                                                 *)
Seen(aa, keys, row, col) ==
    IF CoveringKeys(aa, keys, row, col) # {}
    THEN LET k == Max(CoveringKeys(aa, keys, row, col))
             i == Max({j \in DOMAIN aa.adjustments[k] :
                         Covers(aa.adjustments[k][j], row, col)})
         IN  <<aa.adjustments[k][i].values[row - aa.adjustments[k][i].first_row + 1]>>
    ELSE IF col \in DOMAIN aa.data[row] THEN <<aa.data[row][col]>>
    ELSE <<>>

----------------------------------------------------------------------------
----------------------------------------------------------------------------
(* The end-to-end scenario, loaded: Q2 known from day 5 about day 10 *)
ScenarioLoaded ==
    /\ Loaded
    /\ \E q1_event \in 0..1 : estimates.rows = ScenarioRows(q1_event, 5, 10)

ScenarioArray == out.arrays[RequestColumn("estimate", 1)]

(* C2 as stated: the load reports 10 for days 1-9 and 12 for days 10-12    *)
(* (row d of the window ending at d under the stated rule), the baseline   *)
(* matrix is 12 in every row, and the map holds at row 9 an instruction    *)
(* replacing rows 0-8 of the asset's column with 10.                       *)
C2_Original ==
    ScenarioLoaded =>
        /\ \A r \in 0..11 :
              Seen(ScenarioArray, {k \in 1..12 : k > r}, r, 0)
                 = <<IF r <= 8 THEN 10 ELSE 12>>
        /\ \A r \in 0..11 : ScenarioArray.data[r][0] = 12
        /\ 9 \in DOMAIN ScenarioArray.adjustments
        /\ \E i \in DOMAIN ScenarioArray.adjustments[9] :
              ScenarioArray.adjustments[9][i]
                 = overwrite(0, 8, 0, 0, [j \in 1..9 |-> 10])

(* C2 amended: the baseline matrix itself holds what the load reports, 10  *)
(* in rows 0-8 (days 1-9) and 12 in rows 9-11 (days 10-12); the map holds  *)
(* no instruction at row 9; it holds at row 10 one instruction replacing   *)
(* rows 0-9 of the asset's column with NaN and, when Q1's event date is    *)
(* day 1, at row 1 one instruction replacing row 0 with NaN, and nothing   *)
(* else.                                                                   *)
C2_Scenario ==
    ScenarioLoaded =>
        /\ \A r \in 0..11 :
              /\ DOMAIN ScenarioArray.data[r] = {0}
              /\ ScenarioArray.data[r][0] = IF r <= 8 THEN 10 ELSE 12
        /\ 9 \notin DOMAIN ScenarioArray.adjustments
        /\ ScenarioArray.adjustments[10]
              = <<overwrite(0, 9, 0, 0, [j \in 1..10 |-> NaN])>>
        /\ IF estimates.rows[1].event_date = 1
           THEN /\ DOMAIN ScenarioArray.adjustments = {1, 10}
                /\ ScenarioArray.adjustments[1]
                      = <<overwrite(0, 0, 0, 0, <<NaN>>)>>
           ELSE DOMAIN ScenarioArray.adjustments = {10}

(* C2 witness: the scenario was loaded, Q1's event being on day 1 *)
C2_Witness ==
    /\ Loaded
    /\ estimates.rows = ScenarioRows(1, 5, 10)
    /\ ScenarioArray.data[8][0] = 10
    /\ ScenarioArray.data[9][0] = 12

----------------------------------------------------------------------------
(* C3 as stated: the loader's event table has the columns and the rows it  *)
(* had right after construction, whatever loads were made.                 *)
C3_Original ==
    /\ estimates.columns = constructed.columns
    /\ estimates.rows = constructed.rows

(* C4 as stated: a load that returns maps every requested column to an     *)
(* Adjusted Array.                                                         *)
C4_Original == Loaded => args.columns \subseteq DOMAIN out.arrays

(* C5: a load with a negative num_quarters among its columns fails with    *)
(* the ValueError, returns no array for any column, and leaves the event   *)
(* table as it was.                                                        *)
C5_NegativeNumQuarters ==
    (\E c \in args.columns : c.num_quarters < 0) =>
        /\ out.status = "ValueError"
        /\ DOMAIN out.arrays = {}
        /\ estimates = constructed

(* C5 witness: a load of a negative and a valid group failed, on a table   *)
(* over which the valid group alone raises a KeyError                      *)
C5_Witness ==
    /\ out.status = "ValueError"
    /\ \E c \in args.columns : c.num_quarters < 0
    /\ \E c \in args.columns :
          /\ c.num_quarters >= 0
          /\ LoadGroups(loader, WithNormalizedQuarters(estimates), args.n,
                        args.assets, {c}, args.stable).status = "KeyError"

----------------------------------------------------------------------------
(* Two instructions at different keys for one asset column *)
InstructionPairs(aa) ==
    {x \in (DOMAIN aa.adjustments) \X (DOMAIN aa.adjustments) : x[1] < x[2]}

(* C6 as stated: instructions at different keys for the same asset column  *)
(* cover row ranges that do not overlap.                                   *)
C6_Original ==
    Loaded =>
        \A c \in DOMAIN out.arrays : \A x \in InstructionPairs(out.arrays[c]) :
            \A i \in DOMAIN out.arrays[c].adjustments[x[1]] :
            \A j \in DOMAIN out.arrays[c].adjustments[x[2]] :
                LET a == out.arrays[c].adjustments[x[1]][i]
                    b == out.arrays[c].adjustments[x[2]][j]
                IN  a.first_col = b.first_col =>
                        (a.last_row < b.first_row \/ b.last_row < a.first_row)

(* C6 amended: instructions at different keys for the same asset column    *)
(* cover nested row ranges: each covers the rows 0..key-1, so the one at   *)
(* the smaller key covers a proper prefix of the other's range.            *)
C6_NestedRanges ==
    Loaded =>
        \A c \in DOMAIN out.arrays : \A x \in InstructionPairs(out.arrays[c]) :
            \A i \in DOMAIN out.arrays[c].adjustments[x[1]] :
            \A j \in DOMAIN out.arrays[c].adjustments[x[2]] :
                LET a == out.arrays[c].adjustments[x[1]][i]
                    b == out.arrays[c].adjustments[x[2]][j]
                IN  a.first_col = b.first_col =>
                        /\ a.first_row = 0 /\ a.last_row = x[1] - 1
                        /\ b.first_row = 0 /\ b.last_row = x[2] - 1
                        /\ a.last_row < b.last_row

(* C6 witness: one asset column has instructions at two keys *)
C6_Witness ==
    /\ Loaded
    /\ \E c \in DOMAIN out.arrays : \E x \in InstructionPairs(out.arrays[c]) :
          out.arrays[c].adjustments[x[1]][1].first_col
             = out.arrays[c].adjustments[x[2]][1].first_col

----------------------------------------------------------------------------
(* The map holds at key r an instruction for column col over rows 0..r-1 *)
HoldsInstruction(aa, r, col) ==
    /\ r \in DOMAIN aa.adjustments
    /\ \E i \in DOMAIN aa.adjustments[r] :
          /\ aa.adjustments[r][i].first_col = col
          /\ aa.adjustments[r][i].last_col = col
          /\ aa.adjustments[r][i].first_row = 0
          /\ aa.adjustments[r][i].last_row = r - 1

(* C7 as stated: for a boundary of an asset whose about-to-begin quarter   *)
(* has no event of that asset, with boundary row 0 < r < number of dates,  *)
(* the returned map holds at key r an instruction for the asset's column   *)
(* over rows 0..r-1 whose values are the missing value r times.            *)
C7_Original ==
    Loaded =>
        \A c \in DOMAIN out.arrays :
            LET quarters == QuartersOf(c)
            IN  \A pos \in DOMAIN args.assets :
                \A d \in qtr_shifts(quarters, args.assets[pos]) :
                    LET sid == args.assets[pos]
                        r == BoundaryRow(quarters, d, sid)
                        requested_quarter == ShiftedAt(quarters, d, sid) + 1
                    IN  (/\ 0 < r /\ r < args.n
                         /\ \A i \in DOMAIN estimates.rows :
                               ~(/\ estimates.rows[i].sid = sid
                                 /\ estimates.normalized_quarters[i]
                                       = requested_quarter))
                        => /\ r \in DOMAIN out.arrays[c].adjustments
                           /\ \E i \in DOMAIN out.arrays[c].adjustments[r] :
                                 out.arrays[c].adjustments[r][i]
                                    = overwrite(0, r - 1, pos - 1, pos - 1,
                                                [j \in 1..r |-> MissingValue(c.dtype)])

C10_Original ==
    Loaded =>
        \A c \in DOMAIN out.arrays :
            LET quarters == QuartersOf(c)
            IN  \A pos \in DOMAIN args.assets :
                \A d \in qtr_shifts(quarters, args.assets[pos]) :
                    LET r == BoundaryRow(quarters, d, args.assets[pos])
                    IN  (0 < r /\ r < args.n)
                            => HoldsInstruction(out.arrays[c], r, pos - 1)

----------------------------------------------------------------------------
(* C9: splitting the normalized quarter of (year, quarter) gives back      *)
(* (year, quarter), for every year and every quarter 1..4.                 *)
C9_RoundTrip ==
    codec.pc = "split" => codec.split = <<codec.year, codec.quarter>>

(* C9 witness: a negative year's fourth quarter went through the codec *)
C9_Witness ==
    /\ codec.pc = "split"
    /\ codec.year < 0
    /\ codec.quarter = 4
    /\ codec.normalized = normalize_quarters(codec.year, codec.quarter)

====
